---- MODULE Spec2Model ----
(***************************************************************************)
(* The tree simplification engine of Figma-Context-MCP: the node walker    *)
(* (parseNode), the content-addressed variable store (findOrCreateVar,     *)
(* generateVarId), the vector grouping pass (parseGlobalVars) and the      *)
(* empty-key pruner (removeEmptyKeys).                                     *)
(*                                                                         *)
(* Three revisions of the engine are in the repository and all are         *)
(* modelled; the variable `variant` says which one a run executes:          *)
(*   "A"  src/unnamed/part_001 (parseGlobalVars, stub {id, type})          *)
(*   "S"  src/src/services/simplify-node-response.ts (inline grouping,     *)
(*        stub {id, name, type, size})                                     *)
(*   "B"  src/unnamed/part_002 (inline grouping, no visibility filter,     *)
(*        stub {id, name, type, size, fills})                              *)
(***************************************************************************)
EXTENDS Integers, Sequences, FiniteSets, TLC

VARIABLES
    variant,          \* which revision of the engine runs
    document,         \* the raw input: the sequence of top-level raw nodes
    pc,               \* position of the run inside the entry point
    globalVars,       \* the store: insertion-ordered entries [k, v]
    simplifiedNodes,  \* the output tree
    childrenToParents,\* the local of the grouping pass
    pending,          \* parent ids the rewrite loop has not reached yet
    calls,            \* history: one record per findOrCreateVar call of the run
    walked,           \* history: the output tree as the walk left it
    x,                \* the value handed to removeEmptyKeys (pruner runs)
    pruned,           \* what removeEmptyKeys returned for x
    turns,            \* history: the turns of the rewrite loop, [id, found]
    run,              \* the number of the entry-point call in progress
    earlier,          \* history: what the earlier calls returned
    rgba,             \* the colour handed to convertColor (colour runs)
    alpha,            \* the opacity handed to convertColor
    converted,        \* what convertColor returned
    sseTransport,     \* FigmaMcpServer.sseTransport: 0 for null, else a transport
    transports,       \* how many SSEServerTransport objects have been constructed
    inbox,            \* per transport, the requests its handlePostMessage was given
    requests,         \* history: the requests the HTTP server has handled, in order
    connecting        \* the transports whose server.connect has not settled

\* the state of the HTTP server
httpServer == <<sseTransport, transports, inbox, requests, connecting>>

vars == <<variant, document, pc, globalVars, simplifiedNodes,
          childrenToParents, pending, calls, walked, x, pruned,
          turns, run, earlier, rgba, alpha, converted, httpServer>>

----------------------------------------------------------------------------
(* JavaScript values.  An object is a function from its own keys to values; *)
(* a key whose value is `undefined` is a key of the function.  An          *)
(* insertion-ordered object whose key order the code depends on            *)
(* (Object.entries, Object.values) is an OMap: a sequence of [k, v].        *)

Undefined == [t |-> "undefined"]
Null == [t |-> "null"]
Str(s) == [t |-> "string", s |-> s]
Num(n) == [t |-> "number", n |-> n]
Bool(b) == [t |-> "boolean", b |-> b]
Arr(e) == [t |-> "array", e |-> e]
Obj(f) == [t |-> "object", f |-> f]
OMap(e) == [t |-> "omap", e |-> e]

NoKeys == [k \in {} |-> Undefined]
EmptyObj == Obj(NoKeys)

Has(o, k) == k \in DOMAIN o.f
Get(o, k) == IF Has(o, k) THEN o.f[k] ELSE Undefined
SetKey(o, k, v) == Obj([j \in DOMAIN o.f \cup {k} |-> IF j = k THEN v ELSE o.f[j]])
DelKey(o, k) == Obj([j \in DOMAIN o.f \ {k} |-> o.f[j]])

\* position of key k in an ordered map, 0 when absent
RECURSIVE OIndexFrom(_, _, _)
OIndexFrom(e, k, i) ==
    IF i > Len(e) THEN 0
    ELSE IF e[i].k = k THEN i
    ELSE OIndexFrom(e, k, i + 1)
OIndex(e, k) == OIndexFrom(e, k, 1)
OKeys(e) == {e[i].k : i \in 1..Len(e)}
OGet(e, k) == e[OIndex(e, k)].v
\* obj[k] = v: an existing key keeps its position
OSet(e, k, v) ==
    IF OIndex(e, k) = 0 THEN Append(e, [k |-> k, v |-> v])
    ELSE [e EXCEPT ![OIndex(e, k)] = [k |-> k, v |-> v]]
\* delete obj[k]
ODel(e, k) == SelectSeq(e, LAMBDA p: p.k # k)

----------------------------------------------------------------------------
(* removeEmptyKeys, src/src/server.ts:197-231                               *)

IsEmptyValue(v) ==
    \/ v = Undefined
    \/ (v.t = "array" /\ Len(v.e) = 0)
    \/ (v.t = "object" /\ DOMAIN v.f = {})

\* a pruner that tests a key for emptiness before cleaning its value
RECURSIVE removeEmptyKeysUncleaned(_)
removeEmptyKeysUncleaned(input) ==
    IF input.t \notin {"array", "object"} THEN input
    ELSE IF input.t = "array"
    THEN Arr([i \in 1..Len(input.e) |-> removeEmptyKeysUncleaned(input.e[i])])
    ELSE LET kept == {k \in DOMAIN input.f : ~IsEmptyValue(input.f[k])}
         IN Obj([k \in kept |-> removeEmptyKeysUncleaned(input.f[k])])

RECURSIVE removeEmptyKeys(_)
removeEmptyKeys(input) ==
    IF input.t \notin {"array", "object"} THEN input
    ELSE IF input.t = "array"
    THEN Arr([i \in 1..Len(input.e) |-> removeEmptyKeys(input.e[i])])
    ELSE LET cleaned == [k \in DOMAIN input.f |-> removeEmptyKeys(input.f[k])]
             kept == {k \in DOMAIN input.f : ~IsEmptyValue(cleaned[k])}
         IN Obj([k \in kept |-> cleaned[k]])

----------------------------------------------------------------------------
(* JSON.stringify as findOrCreateVar uses it: two values are the same       *)
(* entry when their JSON texts are equal.  Stringify returns the value the  *)
(* text denotes: keys holding undefined are dropped, undefined inside an    *)
(* array becomes null, an ordered map is written as a plain object.         *)
(* (Key order, which the text also carries, is not modelled: every payload  *)
(* the walker builds lists its keys in one fixed order.)                    *)

RECURSIVE Stringify(_)
Stringify(v) ==
    CASE v.t = "object" ->
            Obj([k \in {j \in DOMAIN v.f : v.f[j] # Undefined} |-> Stringify(v.f[k])])
      [] v.t = "array" ->
            Arr([i \in 1..Len(v.e) |->
                    IF v.e[i] = Undefined THEN Null ELSE Stringify(v.e[i])])
      [] v.t = "omap" ->
            Obj([k \in {j \in OKeys(v.e) : OGet(v.e, j) # Undefined}
                    |-> Stringify(OGet(v.e, k))])
      [] OTHER -> v

----------------------------------------------------------------------------
(* Numbers with a fractional part (colour channels, alpha, opacity) are    *)
(* fixed-point hundredths: Num(25) is 0.25.                                 *)

\* Math.round: the nearest integer, a half rounding up
Round(num, den) == (2 * num + den) \div (2 * den)

HexDigit == <<"0", "1", "2", "3", "4", "5", "6", "7",
              "8", "9", "A", "B", "C", "D", "E", "F">>

\* n.toString(16).slice(1).toUpperCase(): the hexadecimal digits of n after
\* the leading one
RECURSIVE HexTail(_)
HexTail(n) == IF n < 16 THEN ""
              ELSE HexTail(n \div 16) \o HexDigit[(n % 16) + 1]

\* convertColor(color, opacity = 1), src/src/server.ts:266-277
convertColor(color, opacity) ==
    LET o == IF opacity = Undefined THEN 100 ELSE opacity.n
        r == Round(Get(color, "r").n * 255, 100)
        g == Round(Get(color, "g").n * 255, 100)
        b == Round(Get(color, "b").n * 255, 100)
        a == Round(o * Get(color, "a").n, 100)
        word == 16777216 + r * 65536 + g * 256 + b
    IN Obj([hex |-> Str("#" \o HexTail(word)), opacity |-> Num(a)])

----------------------------------------------------------------------------
(* The variable store                                                      *)

\* the random six-character strings generateVarId can draw, cut to NumIds
NumIds == 2
IdPool == <<"AB12C3", "K9Q0ZX", "7HH2PD", "M4M4M4", "ZZ0TOP">>
RandomIds == {IdPool[i] : i \in 1..NumIds}

\* generateVarId(prefix = 'var'), src/src/server.ts:301-311: every outcome of
\* the six Math.random draws is possible
generateVarId(prefix) == {prefix \o "_" \o r : r \in RandomIds}

\* Object.entries(globalVars).find(...): the first entry whose JSON text
\* equals the value's, 0 when there is none
RECURSIVE FindFrom(_, _, _)
FindFrom(gv, value, i) ==
    IF i > Len(gv) THEN 0
    ELSE IF Stringify(gv[i].v) = Stringify(value) THEN i
    ELSE FindFrom(gv, value, i + 1)

\* findOrCreateVar, src/unnamed/part_001:201-218: the set of its outcomes
\* [gv, id], one per ID the generator can draw
findOrCreateVar(gv, value, prefix) ==
    LET i == FindFrom(gv, value, 1) IN
    IF i # 0 THEN {[gv |-> gv, id |-> gv[i].k]}
    ELSE {[gv |-> OSet(gv, varId, value), id |-> varId] :
            varId \in generateVarId(prefix)}

----------------------------------------------------------------------------
(* The walker.  A raw node is an Obj holding the fields the Figma API gave  *)
(* it.  Because generateVarId is random, every operator of the walker       *)
(* returns the SET of its possible outcomes; an outcome is                  *)
(*   [gv, calls, err, simp]  inside parseNode (simp: the node being built)  *)
(*   [gv, calls, err, ret]   from parseNode (ret: its return value)         *)
(*   [gv, calls, err, rets]  from a map over a child list                   *)
(* err = TRUE is a thrown Error on its way up the call stack.               *)

Throw(message) == [t |-> "throw", message |-> message]

\* hasValue(key, obj) of ~/utils/identity: the key exists and is neither
\* null nor undefined
hasValue(key, n) == Get(n, key) \notin {Undefined, Null}
\* isTruthy of ~/utils/identity
isTruthy(v) == v \notin {Undefined, Null, Str(""), Num(0), Bool(FALSE)}

GradientTypes == {"GRADIENT_LINEAR", "GRADIENT_RADIAL",
                  "GRADIENT_ANGULAR", "GRADIENT_DIAMOND"}

\* formatRGBAColor(color, opacity = 1), src/src/server.ts:286-294; the text
\* `rgba(r, g, b, a)` is kept as the four numbers it prints
formatRGBAColor(color, opacity) ==
    LET o == IF opacity = Undefined THEN 100 ELSE opacity.n
    IN [t |-> "string",
        rgba |-> <<Round(Get(color, "r").n * 255, 100),
                   Round(Get(color, "g").n * 255, 100),
                   Round(Get(color, "b").n * 255, 100),
                   Round(o * Get(color, "a").n, 100)>>]

\* parsePaint, src/unnamed/part_001:356-388
parsePaintA(raw) ==
    LET type == Get(raw, "type").s IN
    IF type = "IMAGE"
    THEN Obj([type |-> Str("IMAGE"),
              imageRef |-> Get(raw, "imageRef"),
              scaleMode |-> Get(raw, "scaleMode")])
    ELSE IF type = "SOLID"
    THEN LET c == convertColor(Get(raw, "color"), Get(raw, "opacity"))
         IN Obj([type |-> Str("SOLID"),
                 hex |-> Get(c, "hex"),
                 opacity |-> Get(c, "opacity")])
    ELSE IF type \in GradientTypes
    THEN LET stops == Get(raw, "gradientStops").e
         IN Obj([type |-> Str(type),
                 gradientHandlePositions |-> Get(raw, "gradientHandlePositions"),
                 gradientStops |-> Arr([i \in 1..Len(stops) |->
                     Obj([position |-> Get(stops[i], "position"),
                          color |-> convertColor(Get(stops[i], "color"), Undefined)])])])
    ELSE Throw("Unknown paint type: " \o type)

\* parsePaint, src/src/services/simplify-node-response.ts:332-359
parsePaintS(raw) ==
    LET type == Get(raw, "type").s IN
    IF type = "IMAGE"
    THEN Obj([imageRef |-> Get(raw, "imageRef"),
              scaleMode |-> Get(raw, "scaleMode")])
    ELSE IF type = "SOLID"
    THEN Obj([rgba |-> formatRGBAColor(Get(raw, "color"), Get(raw, "opacity"))])
    ELSE IF type \in GradientTypes
    THEN LET stops == Get(raw, "gradientStops").e
         IN Obj([type |-> Str(type),
                 gradientHandlePositions |-> Get(raw, "gradientHandlePositions"),
                 gradientStops |-> Arr([i \in 1..Len(stops) |->
                     Obj([position |-> Get(stops[i], "position"),
                          color |-> formatRGBAColor(Get(stops[i], "color"), Undefined)])])])
    ELSE Throw("Unknown paint type: " \o type)

\* a normalizer that lets a paint of unknown type through as an empty paint
parsePaintLenient(raw) ==
    LET known == IF variant = "A" THEN parsePaintA(raw) ELSE parsePaintS(raw)
    IN IF known.t = "throw" THEN EmptyObj ELSE known

parsePaint(raw) == IF variant = "A" THEN parsePaintA(raw) ELSE parsePaintS(raw)

\* revision A calls generateVarId() with its default prefix
Prefix(p) == IF variant = "A" THEN "var" ELSE p

\* simplified[key] = findOrCreateVar(globalVars, value, prefix)
Register(o, key, value, prefix) ==
    {[gv |-> r.gv,
      calls |-> Append(o.calls,
                  [value |-> value,
                   node |-> Get(o.simp, "id"),
                   key |-> key,
                   id |-> r.id,
                   minted |-> FindFrom(o.gv, value, 1) = 0,
                   overwrote |-> FindFrom(o.gv, value, 1) = 0 /\ r.id \in OKeys(o.gv),
                   added |-> Len(r.gv) > Len(o.gv)]),
      err |-> FALSE,
      simp |-> IF key = "" THEN o.simp ELSE SetKey(o.simp, key, Str(r.id)),
      id |-> r.id] :
        r \in findOrCreateVar(o.gv, value, Prefix(prefix))}

Plain(o) == [gv |-> o.gv, calls |-> o.calls, err |-> o.err, simp |-> o.simp]

\* n[key].map(parsePaint) and its registration; a throwing parsePaint ends
\* the map and the walk
PaintStep(o, n, key, prefix) ==
    LET list == Get(n, key) IN
    IF hasValue(key, n) /\ list.t = "array" /\ Len(list.e) > 0
    THEN LET paints == [i \in 1..Len(list.e) |-> parsePaint(list.e[i])] IN
         IF \E i \in 1..Len(list.e) : paints[i].t = "throw"
         THEN {[o EXCEPT !.err = TRUE]}
         ELSE {Plain(r) : r \in Register(o, key, Arr(paints), prefix)}
    ELSE {o}

\* continue every outcome that has not thrown
Bind(S, F(_)) == UNION {IF o.err THEN {o} ELSE F(o) : o \in S}

\* `${v}px`: the text is kept as the number it prints
Px(v) == [t |-> "string", px |-> v]

\* a ?? b
Coalesce(a, b) == IF a \in {Undefined, Null} THEN b ELSE a

\* the text style record, src/unnamed/part_001:254-266
textStyleA(style) ==
    Obj([fontFamily |-> Get(style, "fontFamily"),
         fontWeight |-> Get(style, "fontWeight"),
         fontSize |-> Get(style, "fontSize"),
         lineHeight |-> Coalesce(Get(style, "lineHeightPx"), Get(style, "fontSize")),
         letterSpacing |-> IF isTruthy(Get(style, "letterSpacing"))
                              /\ Get(style, "letterSpacing") # Num(0)
                           THEN Get(style, "letterSpacing") ELSE Undefined,
         textCase |-> Get(style, "textCase"),
         textAlignHorizontal |-> Get(style, "textAlignHorizontal"),
         textAlignVertical |-> Get(style, "textAlignVertical")])

\* the text style record, src/src/services/simplify-node-response.ts:225-234
textStyleS(style) ==
    Obj([fontFamily |-> Get(style, "fontFamily"),
         fontWeight |-> Get(style, "fontWeight"),
         fontSize |-> Get(style, "fontSize"),
         lineHeight |-> IF isTruthy(Get(style, "lineHeightPx"))
                        THEN Px(Get(style, "lineHeightPx")) ELSE Undefined,
         letterSpacing |-> IF isTruthy(Get(style, "letterSpacing"))
                           THEN Px(Get(style, "letterSpacing")) ELSE Undefined,
         textCase |-> Get(style, "textCase"),
         textAlignHorizontal |-> Get(style, "textAlignHorizontal"),
         textAlignVertical |-> Get(style, "textAlignVertical")])

TextStep(o, n) ==
    IF hasValue("style", n) /\ DOMAIN Get(n, "style").f # {}
    THEN {Plain(r) : r \in Register(o, "textStyle",
                IF variant = "A" THEN textStyleA(Get(n, "style"))
                                 ELSE textStyleS(Get(n, "style")), "style")}
    ELSE {o}

\* JSON.stringify(v) kept as a string value: the text is the value it denotes
JsonText(v) == [t |-> "string", json |-> Stringify(v)]

\* revision A registers n.styles in the store, revision S keeps its JSON
\* text, revision B does not read n.styles
StylesStep(o, n) ==
    IF variant = "B" \/ ~hasValue("styles", n) THEN {o}
    ELSE IF variant = "A"
    THEN {Plain(r) : r \in Register(o, "styles", Get(n, "styles"), "var")}
    ELSE {[o EXCEPT !.simp = SetKey(@, "styles", JsonText(Get(n, "styles")))]}

\* buildSimplifiedLayout(n, parent) of ~/transformers/layout: the layout
\* abstraction of a node; a node without auto-layout gets {mode: "none"}
buildSimplifiedLayout(n, parent) ==
    IF hasValue("layoutMode", n) /\ Get(n, "layoutMode") # Str("NONE")
    THEN Obj([mode |-> IF Get(n, "layoutMode") = Str("HORIZONTAL")
                       THEN Str("row") ELSE Str("column"),
              gap |-> Get(n, "itemSpacing"),
              alignSelf |-> IF parent = Undefined THEN Undefined
                            ELSE Get(n, "layoutAlign")])
    ELSE Obj([mode |-> Str("none")])

LayoutStep(o, n, parent) ==
    LET layout == buildSimplifiedLayout(n, parent) IN
    \* revision B tests `if (layout)`, which every object passes
    IF variant = "B" \/ Cardinality(DOMAIN layout.f) > 1
    THEN {Plain(r) : r \in Register(o, "layout", layout, "layout")}
    ELSE {o}

\* the properties kept inline, src/unnamed/part_001:289-323
isStrokeWeights(v) ==
    v.t = "object" /\ \A k \in {"top", "right", "bottom", "left"} : Has(v, k)

SimpleStep(o, n) ==
    LET s1 == IF hasValue("characters", n) /\ isTruthy(Get(n, "characters"))
              THEN SetKey(o.simp, "text", Get(n, "characters")) ELSE o.simp
        s2 == IF hasValue("strokeWeight", n) /\ Get(n, "strokeWeight").t = "number"
                 /\ Has(s1, "strokes")
              THEN SetKey(s1, "strokeWeight", Get(n, "strokeWeight")) ELSE s1
        s3 == IF hasValue("strokeDashes", n) /\ Get(n, "strokeDashes").t = "array"
                 /\ Len(Get(n, "strokeDashes").e) > 0
              THEN SetKey(s2, "strokeDashes", Get(n, "strokeDashes")) ELSE s2
    IN [o EXCEPT !.simp = s3]

WeightsStep(o, n) ==
    IF hasValue("individualStrokeWeights", n)
       /\ isStrokeWeights(Get(n, "individualStrokeWeights"))
    THEN LET w == Get(n, "individualStrokeWeights") IN
         {Plain(r) : r \in Register(o, "individualStrokeWeights",
                Obj([top |-> Get(w, "top"), right |-> Get(w, "right"),
                     bottom |-> Get(w, "bottom"), left |-> Get(w, "left")]),
                "weights")}
    ELSE {o}

RadiusStep(o, n) ==
    LET s1 == IF hasValue("opacity", n) /\ Get(n, "opacity").t = "number"
              THEN SetKey(o.simp, "opacity", Get(n, "opacity")) ELSE o.simp
        s2 == IF hasValue("cornerRadius", n) /\ Get(n, "cornerRadius").t = "number"
              THEN SetKey(s1, "borderRadius", Px(Get(n, "cornerRadius"))) ELSE s1
    IN [o EXCEPT !.simp = s2]

\* revisions S and B: simplified.size = {width, height} of absoluteBoundingBox
SizeStep(o, n) ==
    IF variant # "A" /\ hasValue("absoluteBoundingBox", n)
    THEN LET box == Get(n, "absoluteBoundingBox") IN
         [o EXCEPT !.simp = SetKey(@, "size",
                Obj([width |-> Get(box, "width"), height |-> Get(box, "height")]))]
    ELSE o

\* globalVars.vectorParents[parent.id] = {parentId, parentName, parentType, childrenId}
RecordParent(gv, parent, vectorId) ==
    OSet(gv, "vectorParents",
         OMap(OSet(OGet(gv, "vectorParents").e, Get(parent, "id").s,
                   Obj([parentId |-> Get(parent, "id"),
                        parentName |-> Get(parent, "name"),
                        parentType |-> Get(parent, "type"),
                        childrenId |-> Str(vectorId)]))))

\* a VECTOR registers itself without its id and records its parent,
\* src/unnamed/part_001:333-351
VectorStep(o, n, parent) ==
    IF Get(n, "type") = Str("VECTOR")
    THEN {[gv |-> IF parent # Undefined THEN RecordParent(r.gv, parent, r.id)
                  ELSE r.gv,
           calls |-> r.calls, err |-> FALSE, simp |-> r.simp] :
            r \in Register(o, "", DelKey(o.simp, "id"), "vector")}
    ELSE {o}

NotNull(v) == v \notin {Null, Undefined}

\* a walker without the visibility filter
isVisibleAlways(n) == TRUE

\* const { visible = true } = n; if (!visible) return null
isVisible(n) ==
    isTruthy(IF Get(n, "visible") = Undefined THEN Bool(TRUE) ELSE Get(n, "visible"))

RECURSIVE parseNode(_, _, _)
RECURSIVE parseList(_, _, _)

\* n.children.map(child => parseNode(globalVars, child, n)).filter(non-null)
ChildrenStep(o, n) ==
    IF hasValue("children", n) /\ Len(Get(n, "children").e) > 0
    THEN {LET children == IF variant = "B" THEN r.rets ELSE SelectSeq(r.rets, NotNull) IN
          [gv |-> r.gv, calls |-> r.calls, err |-> r.err,
           simp |-> IF (variant = "B" \/ Len(children) > 0) /\ ~r.err
                    THEN SetKey(o.simp, "children", Arr(children)) ELSE o.simp] :
            r \in parseList([gv |-> o.gv, calls |-> o.calls, err |-> FALSE, rets |-> <<>>],
                            Get(n, "children").e, n)}
    ELSE {o}

\* the fields a node starts with: {id, type}, and name in revisions S and B
BaseNode(n) ==
    IF variant = "A"
    THEN Obj([id |-> Get(n, "id"), type |-> Get(n, "type")])
    ELSE Obj([id |-> Get(n, "id"), name |-> Get(n, "name"), type |-> Get(n, "type")])

\* parseNode, src/unnamed/part_001:241-354
parseNode(c, n, parent) ==
    \* revision B has no visibility filter
    IF variant # "B" /\ ~isVisible(n)
    THEN {[gv |-> c.gv, calls |-> c.calls, err |-> FALSE, ret |-> Null]}
    ELSE LET s0 == {[gv |-> c.gv, calls |-> c.calls, err |-> FALSE, simp |-> BaseNode(n)]}
             s1 == Bind(s0, LAMBDA o : TextStep(o, n))
             s2 == Bind(s1, LAMBDA o : PaintStep(o, n, "fills", "fill"))
             s3 == Bind(s2, LAMBDA o : StylesStep(o, n))
             s4 == Bind(s3, LAMBDA o : PaintStep(o, n, "strokes", "stroke"))
             s5 == Bind(s4, LAMBDA o : LayoutStep(o, n, parent))
             s6 == Bind(s5, LAMBDA o : WeightsStep(SimpleStep(o, n), n))
             s7 == Bind(s6, LAMBDA o : ChildrenStep(RadiusStep(o, n), n))
             s8 == Bind(s7, LAMBDA o : VectorStep(SizeStep(o, n), n, parent))
         IN {[gv |-> o.gv, calls |-> o.calls, err |-> o.err,
              ret |-> IF o.err THEN Undefined ELSE removeEmptyKeys(o.simp)] : o \in s8}

\* nodes.map(n => parseNode(globalVars, n, parent)), left to right
parseList(c, nodes, parent) ==
    IF c.err \/ nodes = <<>> THEN {c}
    ELSE UNION {parseList([gv |-> r.gv, calls |-> r.calls, err |-> r.err,
                           rets |-> Append(c.rets, r.ret)], Tail(nodes), parent) :
                    r \in parseNode(c, Head(nodes), parent)}

----------------------------------------------------------------------------
(* The grouping pass: parseGlobalVars, src/unnamed/part_001:111-154, and    *)
(* its inline form, src/src/services/simplify-node-response.ts:159-201      *)

\* a search that looks at the top-level nodes only
findNodeByIdTopLevel(id, nodes) ==
    LET hits == {i \in 1..Len(nodes) : nodes[i] # Null /\ Get(nodes[i], "id") = Str(id)}
    IN IF hits = {} THEN Undefined
       ELSE nodes[CHOOSE i \in hits : \A j \in hits : i <= j]

\* findNodeById, src/unnamed/part_001:176-191: depth first, Undefined when
\* no node has the id
RECURSIVE findNodeById(_, _)
findNodeById(id, nodes) ==
    IF nodes = <<>> THEN Undefined
    ELSE LET node == Head(nodes)
             below == IF node # Null /\ Has(node, "children")
                         /\ Len(Get(node, "children").e) > 0
                      THEN findNodeById(id, Get(node, "children").e)
                      ELSE Undefined
         IN IF node # Null /\ Get(node, "id") = Str(id) THEN node
            ELSE IF below # Undefined THEN below
            ELSE findNodeById(id, Tail(nodes))

\* a placeholder that is named "Image" in every revision
StubWithName(parentNode) ==
    Obj([id |-> Get(parentNode, "id"), name |-> Str("Image"), type |-> Str("IMAGE")])

\* a placeholder that only retypes the parent, keeping its other fields
StubKeepsFields(parentNode) == SetKey(parentNode, "type", Str("IMAGE"))

\* parentIds[0] of the group the rewrite loop is in when it reaches id
FirstOfGroup(id) ==
    LET g == CHOOSE i \in 1..Len(childrenToParents) :
                 \E j \in 1..Len(childrenToParents[i].v) : childrenToParents[i].v[j] = id
    IN childrenToParents[g].v[1]

\* `https://api.figma.com/v1/images/${fileKey}?ids=${parentIds[0]}`
ImageUrl(first) == [t |-> "string", url |-> <<"fileKey", first>>]

\* the placeholder a located parent is overwritten with
Stub(parentNode) ==
    IF variant = "A"
    THEN Obj([id |-> Get(parentNode, "id"), type |-> Str("IMAGE")])
    ELSE IF variant = "S"
    THEN Obj([id |-> Get(parentNode, "id"), name |-> Str("Image"),
              type |-> Str("IMAGE"), size |-> Get(parentNode, "size")])
    ELSE Obj([id |-> Get(parentNode, "id"), name |-> Str("Image"),
              type |-> Str("IMAGE"), size |-> Get(parentNode, "size"),
              fills |-> Arr(<<Obj([type |-> Str("IMAGE"), scaleMode |-> Str("FILL"),
                                   imageRef |-> ImageUrl(FirstOfGroup(Get(parentNode, "id").s)),
                                   opacity |-> Num(100)])>>)])

\* a rewrite that also retypes every node on the way down to the parent
RECURSIVE rewritePath(_, _)
rewritePath(id, nodes) ==
    IF nodes = <<>> THEN nodes
    ELSE LET node == Head(nodes) IN
         IF node # Null /\ Get(node, "id") = Str(id)
         THEN <<Stub(node)>> \o Tail(nodes)
         ELSE IF node # Null /\ Has(node, "children")
                 /\ findNodeById(id, Get(node, "children").e) # Undefined
         THEN <<SetKey(SetKey(node, "children",
                              Arr(rewritePath(id, Get(node, "children").e))),
                       "type", Str("IMAGE"))>> \o Tail(nodes)
         ELSE <<node>> \o rewritePath(id, Tail(nodes))

\* the tree after the node findNodeById(id, nodes) returns has been emptied
\* and assigned the placeholder's fields in place
RECURSIVE rewriteNode(_, _)
rewriteNode(id, nodes) ==
    IF nodes = <<>> THEN nodes
    ELSE LET node == Head(nodes) IN
         IF node # Null /\ Get(node, "id") = Str(id)
         THEN <<Stub(node)>> \o Tail(nodes)
         ELSE IF node # Null /\ Has(node, "children")
                 /\ findNodeById(id, Get(node, "children").e) # Undefined
         THEN <<SetKey(node, "children",
                       Arr(rewriteNode(id, Get(node, "children").e)))>> \o Tail(nodes)
         ELSE <<node>> \o rewriteNode(id, Tail(nodes))

\* a grouping that opens a group without pushing the parent that opened it
RECURSIVE groupParentsSkipsFirst(_, _, _)
groupParentsSkipsFirst(records, groups, gv) ==
    IF records = <<>> THEN [groups |-> groups, gv |-> gv]
    ELSE LET parentId == Head(records).k
             childrenId == Get(Head(records).v, "childrenId").s
             opened == OIndex(groups, childrenId) = 0
         IN groupParentsSkipsFirst(Tail(records),
                IF opened THEN OSet(groups, childrenId, <<>>)
                ELSE OSet(groups, childrenId, Append(OGet(groups, childrenId), parentId)),
                IF opened /\ variant = "A" THEN ODel(gv, childrenId) ELSE gv)

\* the first forEach: group the recorded parents by childrenId; revision A
\* deletes globalVars[childrenId] when it opens a group
RECURSIVE groupParents(_, _, _)
groupParents(records, groups, gv) ==
    IF records = <<>> THEN [groups |-> groups, gv |-> gv]
    ELSE LET parentId == Head(records).k
             childrenId == Get(Head(records).v, "childrenId").s
             opened == OIndex(groups, childrenId) = 0
             start == IF opened THEN OSet(groups, childrenId, <<>>) ELSE groups
         IN groupParents(Tail(records),
                         OSet(start, childrenId, Append(OGet(start, childrenId), parentId)),
                         IF opened /\ variant = "A" THEN ODel(gv, childrenId) ELSE gv)

\* Object.values(childrenToParents) flattened: the order of the rewrite loop
RECURSIVE Flatten(_)
Flatten(groups) ==
    IF groups = <<>> THEN <<>> ELSE Head(groups).v \o Flatten(Tail(groups))

----------------------------------------------------------------------------
(* Raw documents.  A document is a forest of at most MaxNodes raw nodes,    *)
(* numbered in document order; Shape[i] is the number of node i's parent,   *)
(* 0 for a top-level node.  Raw ids are unique, as Figma's are.  Each node  *)
(* is one of the raw node kinds below; only container kinds have children.  *)

MaxNodes == 4
\* the size of the documents of the paint runs
MaxPaintNodes == 3
NodeIds == <<"1:2", "1:3", "1:4", "1:5", "1:6", "1:7">>

Box == Obj([x |-> Num(0), y |-> Num(0), width |-> Num(2400), height |-> Num(1600)])
SolidRed == Obj([type |-> Str("SOLID"),
                 color |-> Obj([r |-> Num(100), g |-> Num(0), b |-> Num(0), a |-> Num(100)])])

\* the kinds a node with children can be, and the kinds a childless node can be
ContainerKinds == {"FRAME", "HIDDEN", "GROUP"}
LeafKinds == {"TEXT", "VECTOR", "VECTORF", "HIDDEN"}
\* the documents of the paint runs carry paints parsePaint does not know
PaintContainerKinds == {"FRAME", "HIDDEN"}
PaintLeafKinds == {"TEXT", "VECTOR", "EMOJI", "VIDEO", "GRADIENT"}

Emoji == Obj([type |-> Str("EMOJI")])
Video == Obj([type |-> Str("VIDEO")])
Gradient == Obj([type |-> Str("GRADIENT_LINEAR"),
                 gradientHandlePositions |-> Arr(<<>>),
                 gradientStops |-> Arr(<<Obj([position |-> Num(0),
                     color |-> Obj([r |-> Num(0), g |-> Num(0), b |-> Num(100),
                                    a |-> Num(50)])])>>)])

\* n.style of a TEXT node: the fields parseNode reads
BaseStyle == Obj([fontFamily |-> Str("Inter"), fontWeight |-> Num(400),
                  fontSize |-> Num(16)])
TextOf(style) == [type |-> Str("TEXT"), name |-> Str("Text"), characters |-> Str("Hi"),
                  style |-> style]

KindFields(kind) ==
    CASE kind = "FRAME" ->
            [type |-> Str("FRAME"), name |-> Str("Frame"),
             absoluteBoundingBox |-> Box]
      [] kind = "HIDDEN" ->
            [type |-> Str("FRAME"), name |-> Str("Frame"), visible |-> Bool(FALSE),
             absoluteBoundingBox |-> Box]
      [] kind = "AUTO" ->
            [type |-> Str("FRAME"), name |-> Str("Auto"),
             layoutMode |-> Str("HORIZONTAL"), itemSpacing |-> Num(8),
             absoluteBoundingBox |-> Box]
      [] kind = "T_BASE" -> TextOf(BaseStyle)
      [] kind = "T_LS0" -> TextOf(SetKey(BaseStyle, "letterSpacing", Num(0)))
      [] kind = "T_LS2" -> TextOf(SetKey(BaseStyle, "letterSpacing", Num(2)))
      [] kind = "T_LH" -> TextOf(SetKey(BaseStyle, "lineHeightPx", Num(16)))
      [] kind = "GROUP" ->
            [type |-> Str("GROUP"), name |-> Str("Group"), styles |-> EmptyObj]
      [] kind = "TEXT" ->
            [type |-> Str("TEXT"), name |-> Str("Text"), characters |-> Str("Hi"),
             fills |-> Arr(<<SolidRed>>), absoluteBoundingBox |-> Box]
      [] kind = "VECTOR" ->
            [type |-> Str("VECTOR"), name |-> Str("Vector")]
      [] kind = "VECTORF" ->
            [type |-> Str("VECTOR"), name |-> Str("Vector"), fills |-> Arr(<<SolidRed>>)]
      [] kind = "EMOJI" ->
            [type |-> Str("RECTANGLE"), name |-> Str("Rect"),
             fills |-> Arr(<<SolidRed, Emoji>>)]
      [] kind = "VIDEO" ->
            [type |-> Str("RECTANGLE"), name |-> Str("Rect"),
             fills |-> Arr(<<SolidRed>>), strokes |-> Arr(<<Video>>)]
      [] kind = "GRADIENT" ->
            [type |-> Str("RECTANGLE"), name |-> Str("Rect"),
             fills |-> Arr(<<>>), strokes |-> Arr(<<Gradient>>)]

\* is a an ancestor of node j, or j itself, or 0
RECURSIVE OnPathToRoot(_, _, _)
OnPathToRoot(shape, a, j) ==
    IF a = 0 \/ a = j THEN TRUE
    ELSE IF j = 0 THEN FALSE
    ELSE OnPathToRoot(shape, a, shape[j])

\* the forests of n nodes numbered in document order
Shapes(n) ==
    {shape \in [1..n -> 0..(n - 1)] :
        /\ shape[1] = 0
        /\ \A i \in 2..n : shape[i] < i /\ OnPathToRoot(shape, shape[i], i - 1)}

ChildrenOf(shape, i) == SelectSeq([j \in 1..Len(shape) |-> j], LAMBDA j : shape[j] = i)

KindsFor(shape, containers, leaves) ==
    {kinds \in [1..Len(shape) -> containers \cup leaves] :
        \A i \in 1..Len(shape) :
            IF ChildrenOf(shape, i) = <<>> THEN kinds[i] \in leaves
            ELSE kinds[i] \in containers}

RECURSIVE RawNode(_, _, _)
RawNode(shape, kinds, i) ==
    LET below == ChildrenOf(shape, i)
        fields == KindFields(kinds[i]) @@ [id |-> Str(NodeIds[i])]
    IN IF below = <<>> THEN Obj(fields)
       ELSE Obj(fields @@ [children |->
                Arr([j \in 1..Len(below) |-> RawNode(shape, kinds, below[j])])])

RawForest(shape, kinds) ==
    LET roots == ChildrenOf(shape, 0)
    IN [j \in 1..Len(roots) |-> RawNode(shape, kinds, roots[j])]

DocumentsOf(containers, leaves, most) ==
    UNION {UNION {{RawForest(shape, kinds) : kinds \in KindsFor(shape, containers, leaves)} :
                    shape \in Shapes(n)} : n \in 1..most}


----------------------------------------------------------------------------
(* A run of an entry point: parseFigmaFileResponse / parseFigmaResponse,    *)
(* src/unnamed/part_001:157-173, 220-238, and parseFigmaResponse,           *)
(* src/src/services/simplify-node-response.ts:148-210                       *)

\* the most requests the HTTP server is sent
MaxRequests == 5

\* a FigmaMcpServer right after construction, src/src/server.ts:12: no
\* transport, no request handled
NotListening ==
    /\ sseTransport = 0
    /\ transports = 0
    /\ inbox = [t \in 1..MaxRequests |-> <<>>]
    /\ requests = <<>>
    /\ connecting = {}

NewStore == <<[k |-> "vectorParents", v |-> OMap(<<>>)]>>

Idle ==
    /\ pc = "walk"
    /\ globalVars = NewStore
    /\ simplifiedNodes = <<>>
    /\ childrenToParents = <<>>
    /\ pending = <<>>
    /\ calls = <<>>
    /\ walked = <<>>
    /\ x = Undefined
    /\ pruned = Undefined
    /\ turns = <<>>
    /\ run = 1
    /\ earlier = <<>>
    /\ rgba = Undefined
    /\ alpha = Undefined
    /\ converted = Undefined
    /\ NotListening

Init ==
    /\ variant \in {"A", "S"}
    /\ document \in DocumentsOf(ContainerKinds, LeafKinds, MaxNodes)
    /\ Idle

InitPaint ==
    /\ variant \in {"A", "S"}
    /\ document \in DocumentsOf(PaintContainerKinds, PaintLeafKinds, MaxPaintNodes)
    /\ Idle

\* the map over the top-level nodes; revision A drops the null results
Walk ==
    /\ pc = "walk"
    /\ \E r \in parseList([gv |-> globalVars, calls |-> <<>>, err |-> FALSE,
                           rets |-> <<>>], document, Undefined) :
          IF r.err
          THEN /\ pc' = "error"
               /\ UNCHANGED <<globalVars, simplifiedNodes, calls, walked>>
          ELSE /\ pc' = "group"
               /\ globalVars' = r.gv
               /\ calls' = r.calls
               /\ simplifiedNodes' = IF variant = "A" THEN SelectSeq(r.rets, NotNull)
                                     ELSE r.rets
               /\ walked' = simplifiedNodes'
    /\ UNCHANGED <<variant, document, childrenToParents, pending, x, pruned,
                   turns, run, earlier, rgba, alpha, converted, httpServer>>

\* the grouping of the recorded parents
Group ==
    /\ pc = "group"
    /\ LET g == groupParents(OGet(globalVars, "vectorParents").e, <<>>, globalVars) IN
          /\ childrenToParents' = g.groups
          /\ globalVars' = g.gv
          /\ pending' = IF variant # "A" \/ Len(simplifiedNodes) > 0
                        THEN Flatten(g.groups) ELSE <<>>
    /\ pc' = "rewrite"
    /\ UNCHANGED <<variant, document, simplifiedNodes, calls, walked, x, pruned,
                   turns, run, earlier, rgba, alpha, converted, httpServer>>

\* a rewrite loop that gives up at the first parent it cannot locate
RewriteStopsAtMiss ==
    /\ pc = "rewrite"
    /\ pending # <<>>
    /\ simplifiedNodes' =
          IF findNodeById(Head(pending), simplifiedNodes) # Undefined
          THEN rewriteNode(Head(pending), simplifiedNodes)
          ELSE simplifiedNodes
    /\ pending' = IF findNodeById(Head(pending), simplifiedNodes) # Undefined
                  THEN Tail(pending) ELSE <<>>
    /\ turns' = Append(turns, [id |-> Head(pending),
                               found |-> findNodeById(Head(pending), simplifiedNodes)
                                             # Undefined])
    /\ UNCHANGED <<variant, document, pc, globalVars, childrenToParents, calls, walked,
                   x, pruned, run, earlier, rgba, alpha, converted, httpServer>>

\* one turn of the rewrite loop
Rewrite ==
    /\ pc = "rewrite"
    /\ pending # <<>>
    /\ simplifiedNodes' =
          IF findNodeById(Head(pending), simplifiedNodes) # Undefined
          THEN rewriteNode(Head(pending), simplifiedNodes)
          ELSE simplifiedNodes
    /\ pending' = Tail(pending)
    /\ turns' = Append(turns, [id |-> Head(pending),
                               found |-> findNodeById(Head(pending), simplifiedNodes)
                                             # Undefined])
    /\ UNCHANGED <<variant, document, pc, globalVars, childrenToParents, calls, walked,
                   x, pruned, run, earlier, rgba, alpha, converted, httpServer>>

\* a return that stores childrenToParents and leaves the bucket in the store
FinishKeepsBucket ==
    /\ pc = "rewrite"
    /\ pending = <<>>
    /\ globalVars' = OSet(globalVars, "childrenToParents",
                          OMap([i \in 1..Len(childrenToParents) |->
                              [k |-> childrenToParents[i].k,
                               v |-> Arr([j \in 1..Len(childrenToParents[i].v) |->
                                           Str(childrenToParents[i].v[j])])]]))
    /\ pc' = "done"
    /\ UNCHANGED <<variant, document, simplifiedNodes, childrenToParents, pending,
                   calls, walked, x, pruned, turns, run, earlier, rgba, alpha, converted, httpServer>>

\* globalVars.childrenToParents = childrenToParents; delete
\* globalVars.vectorParents; return
Finish ==
    /\ pc = "rewrite"
    /\ pending = <<>>
    /\ globalVars' = ODel(OSet(globalVars, "childrenToParents",
                               OMap([i \in 1..Len(childrenToParents) |->
                                   [k |-> childrenToParents[i].k,
                                    v |-> Arr([j \in 1..Len(childrenToParents[i].v) |->
                                                Str(childrenToParents[i].v[j])])]])),
                          "vectorParents")
    /\ pc' = "done"
    /\ UNCHANGED <<variant, document, simplifiedNodes, childrenToParents, pending,
                   calls, walked, x, pruned, turns, run, earlier, rgba, alpha, converted, httpServer>>

Next == Walk \/ Group \/ Rewrite \/ Finish

Spec == Init /\ [][Next]_vars

SpecPaint == InitPaint /\ [][Next]_vars

\* runs of the walk in each of the three revisions, on documents with
\* auto-layout containers and invisible nodes
MaxWalkNodes == 3
WalkContainerKinds == {"FRAME", "HIDDEN", "AUTO"}
WalkLeafKinds == {"TEXT", "HIDDEN", "VECTOR"}

InitWalk ==
    /\ variant \in {"A", "S", "B"}
    /\ document \in DocumentsOf(WalkContainerKinds, WalkLeafKinds, MaxWalkNodes)
    /\ Idle

SpecWalk == InitWalk /\ [][Next]_vars

\* runs on documents of TEXT nodes whose styles differ in letterSpacing and
\* lineHeightPx only
MaxTextNodes == 3
TextContainerKinds == {"FRAME"}
TextLeafKinds == {"T_BASE", "T_LS0", "T_LS2", "T_LH", "VECTOR"}

InitText ==
    /\ variant \in {"A", "S"}
    /\ document \in DocumentsOf(TextContainerKinds, TextLeafKinds, MaxTextNodes)
    /\ Idle

SpecText == InitText /\ [][Next]_vars

\* runs on documents of nested FRAMEs whose leaves are all VECTORs: deep
\* enough for a recorded parent to lie below another one, with further
\* recorded parents after it
MaxNestedNodes == 6

InitNested ==
    /\ variant \in {"A", "S"}
    /\ document \in DocumentsOf({"FRAME"}, {"VECTOR"}, MaxNestedNodes)
    /\ Idle

SpecNested == InitNested /\ [][Next]_vars

\* the entry point is a synchronous function: a call that has started keeps
\* taking its steps until it returns
FairNested == SpecNested /\ WF_vars(Next)

----------------------------------------------------------------------------
(* Several calls of an entry point.  The entry points are synchronous       *)
(* functions: a call runs to its return before the next one starts.  Each   *)
(* call binds globalVars to a new object literal,                           *)
(* src/unnamed/part_001:159-161 and 222-224.                                *)

MaxRuns == 2
\* the size of the documents of the runs with several calls
MaxRunNodes == 2

InitRuns ==
    /\ variant \in {"A", "S"}
    /\ document \in DocumentsOf(ContainerKinds, LeafKinds, MaxRunNodes)
    /\ Idle

\* what a call leaves behind for its caller
Outcome == [document |-> document, pc |-> pc, calls |-> calls,
            nodes |-> simplifiedNodes, globalVars |-> globalVars]

\* an entry point whose store is one object shared by all calls
CallSharesStore ==
    /\ pc \in {"done", "error"}
    /\ run < MaxRuns
    /\ document' \in DocumentsOf(ContainerKinds, LeafKinds, MaxRunNodes)
    /\ run' = run + 1
    /\ earlier' = Append(earlier, Outcome)
    /\ pc' = "walk"
    /\ globalVars' = OSet(ODel(globalVars, "childrenToParents"),
                          "vectorParents", OMap(<<>>))
    /\ simplifiedNodes' = <<>>
    /\ childrenToParents' = <<>>
    /\ pending' = <<>>
    /\ calls' = <<>>
    /\ walked' = <<>>
    /\ turns' = <<>>
    /\ UNCHANGED <<variant, x, pruned, rgba, alpha, converted, httpServer>>

\* the next call of the entry point, on a document of its own
Call ==
    /\ pc \in {"done", "error"}
    /\ run < MaxRuns
    /\ document' \in DocumentsOf(ContainerKinds, LeafKinds, MaxRunNodes)
    /\ run' = run + 1
    /\ earlier' = Append(earlier, Outcome)
    /\ pc' = "walk"
    /\ globalVars' = NewStore
    /\ simplifiedNodes' = <<>>
    /\ childrenToParents' = <<>>
    /\ pending' = <<>>
    /\ calls' = <<>>
    /\ walked' = <<>>
    /\ turns' = <<>>
    /\ UNCHANGED <<variant, x, pruned, rgba, alpha, converted, httpServer>>

NextRuns == Walk \/ Group \/ Rewrite \/ Finish \/ Call

SpecRuns == InitRuns /\ [][NextRuns]_vars

----------------------------------------------------------------------------
(* The HTTP server: FigmaMcpServer.startHttpServer, src/src/server.ts:87-116 *)
(* (src/unnamed/part_000:88-117).  A handler runs without interruption up   *)
(* to its first await; a request is numbered by its place in `requests`.    *)

InitHttp ==
    /\ variant = "A"
    /\ document = <<>>
    /\ pc = "listening"
    /\ globalVars = NewStore
    /\ simplifiedNodes = <<>>
    /\ childrenToParents = <<>>
    /\ pending = <<>>
    /\ calls = <<>>
    /\ walked = <<>>
    /\ x = Undefined
    /\ pruned = Undefined
    /\ turns = <<>>
    /\ run = 1
    /\ earlier = <<>>
    /\ rgba = Undefined
    /\ alpha = Undefined
    /\ converted = Undefined
    /\ NotListening

engine == <<variant, document, pc, globalVars, simplifiedNodes, childrenToParents,
            pending, calls, walked, x, pruned, turns, run, earlier, rgba, alpha,
            converted>>

\* app.get("/sse", ...): a new transport replaces this.sseTransport, then the
\* handler awaits this.server.connect(this.sseTransport)
GetSse ==
    /\ pc = "listening"
    /\ Len(requests) < MaxRequests
    /\ transports' = transports + 1
    /\ sseTransport' = transports + 1
    /\ connecting' = connecting \cup {transports + 1}
    /\ requests' = Append(requests, [method |-> "GET /sse", status |-> 0,
                                     transport |-> transports + 1])
    /\ UNCHANGED <<engine, inbox>>

\* the promise of this.server.connect settles, resolved or rejected: the
\* handler ends and assigns nothing
ConnectSettles ==
    /\ pc = "listening"
    /\ \E t \in connecting : connecting' = connecting \ {t}
    /\ UNCHANGED <<engine, sseTransport, transports, inbox, requests>>

\* a handler that keeps handing the messages to the first transport
PostMessagesToFirst ==
    /\ pc = "listening"
    /\ Len(requests) < MaxRequests
    /\ IF sseTransport = 0
       THEN /\ requests' = Append(requests, [method |-> "POST /messages", status |-> 400,
                                             transport |-> 0])
            /\ UNCHANGED inbox
       ELSE /\ inbox' = [inbox EXCEPT ![1] = Append(@, Len(requests) + 1)]
            /\ requests' = Append(requests, [method |-> "POST /messages", status |-> 0,
                                             transport |-> 1])
    /\ UNCHANGED <<engine, sseTransport, transports, connecting>>

\* app.post("/messages", ...): 400 while this.sseTransport is null, else
\* this.sseTransport.handlePostMessage(req, res); status 0 stands for a
\* response left to the transport
PostMessages ==
    /\ pc = "listening"
    /\ Len(requests) < MaxRequests
    /\ IF sseTransport = 0
       THEN /\ requests' = Append(requests, [method |-> "POST /messages", status |-> 400,
                                             transport |-> 0])
            /\ UNCHANGED inbox
       ELSE /\ inbox' = [inbox EXCEPT ![sseTransport] = Append(@, Len(requests) + 1)]
            /\ requests' = Append(requests, [method |-> "POST /messages", status |-> 0,
                                             transport |-> sseTransport])
    /\ UNCHANGED <<engine, sseTransport, transports, connecting>>

NextHttp == GetSse \/ ConnectSettles \/ PostMessages

SpecHttp == InitHttp /\ [][NextHttp]_vars

----------------------------------------------------------------------------
(* Runs of the pruner alone: removeEmptyKeys applied to a value built from  *)
(* primitives, null, undefined, arrays and objects nested MaxDepth deep.    *)

MaxDepth == 3

Leaves == {Undefined, Null, Num(1), Str("")}
ArraysOver(V) == {Arr(<<>>)} \cup {Arr(<<v>>) : v \in V}
ObjectsOver(V) ==
    {EmptyObj} \cup {Obj([a |-> v]) : v \in V}
               \cup {Obj([a |-> v, b |-> w]) : v \in V, w \in Leaves \cup {EmptyObj}}

RECURSIVE ValuesTo(_)
ValuesTo(depth) ==
    IF depth = 0 THEN Leaves
    ELSE Leaves \cup ArraysOver(ValuesTo(depth - 1)) \cup ObjectsOver(ValuesTo(depth - 1))

InitPrune ==
    /\ variant = "A"
    /\ document = <<>>
    /\ pc = "prune"
    /\ globalVars = NewStore
    /\ simplifiedNodes = <<>>
    /\ childrenToParents = <<>>
    /\ pending = <<>>
    /\ calls = <<>>
    /\ walked = <<>>
    /\ x \in ValuesTo(MaxDepth)
    /\ pruned = Undefined
    /\ turns = <<>>
    /\ run = 1
    /\ earlier = <<>>
    /\ rgba = Undefined
    /\ alpha = Undefined
    /\ converted = Undefined
    /\ NotListening

Prune ==
    /\ pc = "prune"
    /\ pruned' = removeEmptyKeys(x)
    /\ pc' = "pruned"
    /\ UNCHANGED <<variant, document, globalVars, simplifiedNodes, childrenToParents,
                   pending, calls, walked, x, turns, run, earlier, rgba, alpha, converted, httpServer>>

NextPrune == Prune

SpecPrune == InitPrune /\ [][NextPrune]_vars

----------------------------------------------------------------------------
(* Runs of convertColor alone, src/src/server.ts:266-277.  Alpha and        *)
(* opacity are hundredths on a grid of twentieths that reaches below 0 and  *)
(* above 1; a call without an opacity argument takes the default.           *)

MaxGrid == 30
Grid == {5 * k : k \in (0 - 2)..MaxGrid}
Channels == {<<100, 0, 0>>, <<0, 50, 100>>, <<20, 20, 20>>}

InitColor ==
    /\ variant = "A"
    /\ document = <<>>
    /\ pc = "convert"
    /\ globalVars = NewStore
    /\ simplifiedNodes = <<>>
    /\ childrenToParents = <<>>
    /\ pending = <<>>
    /\ calls = <<>>
    /\ walked = <<>>
    /\ x = Undefined
    /\ pruned = Undefined
    /\ turns = <<>>
    /\ run = 1
    /\ earlier = <<>>
    /\ rgba \in {Obj([r |-> Num(c[1]), g |-> Num(c[2]), b |-> Num(c[3]), a |-> Num(a)]) :
                    c \in Channels, a \in Grid}
    /\ alpha \in {Undefined} \cup {Num(o) : o \in Grid}
    /\ converted = Undefined
    /\ NotListening

Convert ==
    /\ pc = "convert"
    /\ converted' = convertColor(rgba, alpha)
    /\ pc' = "converted"
    /\ UNCHANGED <<variant, document, globalVars, simplifiedNodes, childrenToParents,
                   pending, calls, walked, x, pruned, turns, run, earlier, rgba, alpha, httpServer>>

NextColor == Convert

SpecColor == InitColor /\ [][NextColor]_vars

----------------------------------------------------------------------------
(* What the claims speak of, read off the raw document and the output       *)

RawChildren(n) == IF Has(n, "children") THEN Get(n, "children").e ELSE <<>>
RawShown(n) == Get(n, "visible") # Bool(FALSE)
RawType(n) == Get(n, "type").s
Range(seq) == {seq[i] : i \in 1..Len(seq)}

\* every raw node of a forest
RECURSIVE RawAll(_)
RawAll(nodes) ==
    IF nodes = <<>> THEN {}
    ELSE {Head(nodes)} \cup RawAll(RawChildren(Head(nodes))) \cup RawAll(Tail(nodes))

\* the raw nodes that are visible and have only visible ancestors
RECURSIVE RawReached(_)
RawReached(nodes) ==
    IF nodes = <<>> THEN {}
    ELSE (IF RawShown(Head(nodes))
          THEN {Head(nodes)} \cup RawReached(RawChildren(Head(nodes)))
          ELSE {}) \cup RawReached(Tail(nodes))

\* the raw nodes strictly above n in the document
RawAbove(n) == {p \in RawAll(document) : n \in RawAll(RawChildren(p))}

\* has n a visible VECTOR child
HoldsVector(n) == \E v \in Range(RawChildren(n)) : RawShown(v) /\ RawType(v) = "VECTOR"

IdsOf(S) == {Get(n, "id").s : n \in S}

\* every node of an output tree, at every depth
RECURSIVE OutAll(_)
OutAll(nodes) ==
    IF nodes = <<>> THEN {}
    ELSE (IF Head(nodes) = Null THEN {}
          ELSE {Head(nodes)} \cup
               (IF Has(Head(nodes), "children")
                THEN OutAll(Get(Head(nodes), "children").e) ELSE {}))
         \cup OutAll(Tail(nodes))

OutById(id) == {n \in OutAll(simplifiedNodes) : Get(n, "id") = Str(id)}
IsImageStub(n) == Get(n, "type") = Str("IMAGE") /\ ~Has(n, "children")

Walked == pc \in {"group", "rewrite", "done"}
Returned == pc = "done"

\* the groups of the returned childrenToParents, each the set of its parent ids
ReturnedGroups ==
    LET groups == OGet(globalVars, "childrenToParents").e
    IN [i \in 1..Len(groups) |-> {groups[i].v.e[j].s : j \in 1..Len(groups[i].v.e)}]
ListedParents == UNION Range(ReturnedGroups)

\* the ids the grouping pass holds as parents before it returns
RecordedParents == OKeys(OGet(globalVars, "vectorParents").e)

----------------------------------------------------------------------------
(* C1: within one run, two findOrCreateVar calls with structurally equal    *)
(* payloads return the same ID and the second adds no entry; the store      *)
(* holds at most one entry per distinct payload.                            *)
C1_ContentAddressing ==
    /\ \A i, j \in 1..Len(calls) :
          (i < j /\ calls[i].value = calls[j].value)
              => (calls[j].id = calls[i].id /\ ~calls[j].added)
    /\ \A i, j \in 1..Len(globalVars) :
          (i # j /\ {globalVars[i].k, globalVars[j].k}
                        \cap {"vectorParents", "childrenToParents"} = {})
              => globalVars[i].v # globalVars[j].v

(* C2: an ID findOrCreateVar mints for a payload that is not in the store   *)
(* is never already a key of the store, whatever the generator draws.       *)
C2_MintedIdIsFresh ==
    \A i \in 1..Len(calls) : calls[i].minted => ~calls[i].overwrote

(* C3: from the start of a run to the returned result the only key ever     *)
(* removed from the store is vectorParents, and every payload registered    *)
(* during the walk is in the returned globalVars under the ID the           *)
(* registration returned, with the same payload.                            *)
C3_OnlyVectorParentsRemoved ==
    /\ [][OKeys(globalVars) \ OKeys(globalVars') \subseteq {"vectorParents"}]_vars
    /\ [](Returned =>
            \A i \in 1..Len(calls) :
                /\ calls[i].id \in OKeys(globalVars)
                /\ OGet(globalVars, calls[i].id) = calls[i].value)

(* C4: a raw node that is invisible, or lies below an invisible node, is    *)
(* in no output tree, at no depth, and is no parent of childrenToParents.   *)
C4_InvisibleNeverEmitted ==
    LET hidden == IdsOf(RawAll(document) \ RawReached(document)) IN
    /\ Walked => hidden \cap IdsOf(OutAll(simplifiedNodes)) = {}
    /\ pc \in {"group", "rewrite"} => hidden \cap RecordedParents = {}
    /\ Returned => hidden \cap ListedParents = {}

\* a returned result for a document with an invisible container of a VECTOR
C4_Witness ==
    /\ Returned
    /\ simplifiedNodes # <<>>
    /\ ListedParents # {}
    /\ \E n \in RawAll(document) : ~RawShown(n) /\ HoldsVector(n)

(* C5: two VECTOR nodes with the same payload apart from their id, under    *)
(* two different parents placed anywhere in the tree: childrenToParents has *)
(* exactly one entry holding the parents, it holds both, and both parents   *)
(* are IMAGE stubs of the output tree.                                      *)
C5_SharedPayloadOneGroup ==
    Returned =>
        \A p1, p2 \in RawReached(document) :
            (/\ p1 # p2
             /\ \E v1 \in Range(RawChildren(p1)), v2 \in Range(RawChildren(p2)) :
                   /\ RawShown(v1) /\ RawType(v1) = "VECTOR"
                   /\ RawShown(v2) /\ RawType(v2) = "VECTOR"
                   /\ DelKey(v1, "id") = DelKey(v2, "id"))
            => LET p == {Get(p1, "id").s, Get(p2, "id").s} IN
               /\ Cardinality({i \in 1..Len(ReturnedGroups) :
                                  ReturnedGroups[i] \cap p # {}}) = 1
               /\ \E i \in 1..Len(ReturnedGroups) : p \subseteq ReturnedGroups[i]
               /\ \A id \in p : \E n \in OutById(id) : IsImageStub(n)

\* the children of a raw container that are visible and no VECTOR
OtherChildren(c) == {s \in Range(RawChildren(c)) : RawShown(s) /\ RawType(s) # "VECTOR"}

(* C6, as claimed: a container with a visible VECTOR child and non-vector   *)
(* siblings is an IMAGE stub after the grouping pass, and the siblings are  *)
(* still in the output tree with the fields and values the walk gave them.  *)
C6_SiblingsRemain ==
    Returned =>
        \A c \in RawReached(document) :
            (HoldsVector(c) /\ OtherChildren(c) # {}) =>
                /\ \E n \in OutById(Get(c, "id").s) : IsImageStub(n)
                /\ \A s \in OtherChildren(c) :
                      \E m \in OutById(Get(s, "id").s) : m \in OutAll(walked)

(* C6, amended: a visible container with a visible VECTOR child is          *)
(* rewritten to an IMAGE stub without children, so neither the VECTOR nor   *)
(* its siblings, nor anything below them, is in the output tree any more;   *)
(* the stub itself is in the output tree exactly when no container above    *)
(* it has a visible VECTOR child of its own.                                *)
C6_ContainerCollapsed ==
    Returned =>
        \A c \in RawReached(document) :
            HoldsVector(c) =>
                /\ IdsOf(RawAll(RawChildren(c))) \cap IdsOf(OutAll(simplifiedNodes)) = {}
                /\ IF \E a \in RawAbove(c) : HoldsVector(a)
                   THEN OutById(Get(c, "id").s) = {}
                   ELSE /\ Cardinality(OutById(Get(c, "id").s)) = 1
                        /\ \A n \in OutById(Get(c, "id").s) : IsImageStub(n)

\* a returned result where a container of a VECTOR and a TEXT is a stub
C6_Witness ==
    /\ Returned
    /\ \E c \in RawReached(document) :
          /\ HoldsVector(c)
          /\ \E s \in OtherChildren(c) : RawType(s) = "TEXT"
          /\ \E n \in OutById(Get(c, "id").s) : IsImageStub(n)
          /\ \E w \in OutAll(walked) : Get(w, "id") = Get(c, "id") /\ Has(w, "children")

(* C7: every returned globalVars has a childrenToParents key and no         *)
(* vectorParents key; from the start of the walk until the grouping pass    *)
(* returns, the store holds the vectorParents bucket.                       *)
C7_BucketIsTransient ==
    /\ Returned => /\ "vectorParents" \notin OKeys(globalVars)
                   /\ "childrenToParents" \in OKeys(globalVars)
    /\ pc \in {"walk", "group", "rewrite"} => "vectorParents" \in OKeys(globalVars)

\* a returned result whose bucket had recorded parents
C7_Witness ==
    /\ Returned
    /\ childrenToParents # <<>>
    /\ OGet(globalVars, "childrenToParents").e # <<>>

\* the paint types the claim lists
KnownPaintTypes == {"SOLID", "IMAGE", "GRADIENT_LINEAR", "GRADIENT_RADIAL",
                    "GRADIENT_ANGULAR", "GRADIENT_DIAMOND"}
PaintsOf(n, key) == IF Get(n, key).t = "array" THEN Get(n, key).e ELSE <<>>
HasUnknownPaint(n) ==
    \E key \in {"fills", "strokes"} :
        \E i \in 1..Len(PaintsOf(n, key)) :
            Get(PaintsOf(n, key)[i], "type").s \notin KnownPaintTypes

(* C8: a run ends in the unknown-paint-type error, with no result and no    *)
(* partial output, exactly when a node that is visible and has only visible *)
(* ancestors has a fills or strokes list holding a paint of a type other    *)
(* than SOLID, IMAGE and the four gradients; a list that is registered has  *)
(* one normalized paint per raw paint.                                      *)
C8_UnknownPaintAborts ==
    pc # "walk" =>
        /\ pc = "error" <=> \E n \in RawReached(document) : HasUnknownPaint(n)
        /\ pc = "error" => /\ simplifiedNodes = <<>>
                           /\ "childrenToParents" \notin OKeys(globalVars)
        /\ pc # "error" =>
              \A n \in RawReached(document) : \A key \in {"fills", "strokes"} :
                  PaintsOf(n, key) # <<>> =>
                      \E i \in 1..Len(calls) :
                          /\ calls[i].value.t = "array"
                          /\ Len(calls[i].value.e) = Len(PaintsOf(n, key))

\* a run that ended in the error
C8_Witness ==
    /\ pc = "error"
    /\ \E n \in RawReached(document) : HasUnknownPaint(n)

(* C9: removeEmptyKeys is idempotent: pruning a pruned value returns it     *)
(* unchanged.                                                               *)
C9_PruneIdempotent ==
    pc = "pruned" => removeEmptyKeys(pruned) = pruned

\* a pruned object that lost a key whose value became empty only by pruning
C9_Witness ==
    /\ pc = "pruned"
    /\ x.t = "object"
    /\ \E k \in DOMAIN x.f :
          /\ x.f[k].t = "object"
          /\ DOMAIN x.f[k].f # {}
          /\ k \notin DOMAIN pruned.f

(* C10: in every returned result no node of the output tree, at any depth   *)
(* and rewritten or not, has a field whose value is undefined, an empty     *)
(* array or an empty object.                                                *)
C10_NoEmptyFields ==
    Returned =>
        \A n \in OutAll(simplifiedNodes) : \A k \in DOMAIN n.f :
            /\ n.f[k] # Undefined
            /\ ~(n.f[k].t = "array" /\ Len(n.f[k].e) = 0)
            /\ ~(n.f[k].t = "object" /\ DOMAIN n.f[k].f = {})

\* the IDs the calls of the run in progress have minted
MintedHere == {calls[i].id : i \in {j \in 1..Len(calls) : calls[j].minted}}

(* C11: every call of an entry point starts from a store of its own that    *)
(* holds only an empty vectorParents bucket; the store of a run holds only  *)
(* entries the run itself registered, a lookup answers only with an entry   *)
(* of the same run, and two runs on the same input with the same ID draws   *)
(* return the same result.                                                  *)
C11_RunsAreIsolated ==
    /\ pc = "walk" => globalVars = NewStore
    /\ OKeys(globalVars) \subseteq MintedHere \cup {"vectorParents", "childrenToParents"}
    /\ \A i \in 1..Len(calls) :
          ~calls[i].minted =>
              \/ calls[i].id = "vectorParents"
              \/ \E j \in 1..(i - 1) : calls[j].minted /\ calls[j].id = calls[i].id
    /\ Returned =>
          \A r \in 1..Len(earlier) :
              (earlier[r].document = document /\ earlier[r].calls = calls)
                  => (earlier[r].nodes = simplifiedNodes
                      /\ earlier[r].globalVars = globalVars)

\* a second call that returned after registering a payload the first call
\* had registered too, under another ID
C11_Witness ==
    /\ run = 2
    /\ Returned
    /\ \E i \in 1..Len(calls), j \in 1..Len(earlier[1].calls) :
          /\ calls[i].minted
          /\ earlier[1].calls[j].minted
          /\ calls[i].value = earlier[1].calls[j].value
          /\ calls[i].id # earlier[1].calls[j].id

\* round(o * a * 100) / 100 in hundredths, and its clamp to [0, 1]
Product(o, a) == (2 * o * a + 100) \div 200
Clamp(h) == IF h < 0 THEN 0 ELSE IF h > 100 THEN 100 ELSE h

(* C12: for every colour alpha a and paint opacity o, products outside      *)
(* [0, 1] included, convertColor returns the opacity round(o * a * 100) /   *)
(* 100 clamped to [0, 1].                                                   *)
C12_OpacityClamped ==
    pc = "converted" =>
        Get(converted, "opacity") =
            Num(Clamp(Product(IF alpha = Undefined THEN 100 ELSE alpha.n,
                              Get(rgba, "a").n)))

\* the visible VECTOR children of a raw node
VectorChildren(p) == {v \in Range(RawChildren(p)) : RawShown(v) /\ RawType(v) = "VECTOR"}

\* the content IDs findOrCreateVar returned for the payload of VECTOR v
PayloadIds(v) ==
    {calls[i].id : i \in {j \in 1..Len(calls) :
        \E w \in OutAll(walked) :
            Get(w, "id") = Get(v, "id") /\ calls[j].value = DelKey(w, "id")}}

(* C13: after the walk the vector-parent records associate, for every       *)
(* visible VECTOR node with a parent, the parent's raw ID with the content  *)
(* ID of that vector's payload, also when one parent has several VECTOR     *)
(* children of different payloads.                                          *)
C13_EveryVectorRecorded ==
    pc = "group" =>
        \A p \in RawReached(document) : \A v \in VectorChildren(p) :
            LET records == OGet(globalVars, "vectorParents").e
                pid == Get(p, "id").s
            IN /\ pid \in OKeys(records)
               /\ Get(OGet(records, pid), "childrenId").s \in PayloadIds(v)

\* the ids the rewrite loop has located so far
Located == {turns[i].id : i \in {j \in 1..Len(turns) : turns[j].found}}

(* C14: in revision A every recorded parent the grouping pass locates in    *)
(* the output tree is left with exactly the fields id and type, id its own  *)
(* and type "IMAGE"; its children and style references are gone.            *)
C14_StubIsIdAndType ==
    variant = "A" =>
        /\ \A id \in Located :
              OutById(id) \subseteq {Obj([id |-> Str(id), type |-> Str("IMAGE")])}
        /\ (turns # <<>> /\ turns[Len(turns)].found) =>
              OutById(turns[Len(turns)].id) # {}

\* a located parent that had children and a style reference after the walk
C14_Witness ==
    /\ variant = "A"
    /\ Returned
    /\ \E w \in OutAll(walked) :
          /\ Has(w, "children")
          /\ Has(w, "styles")
          /\ Get(w, "id").s \in Located
          /\ OutById(Get(w, "id").s) # {}

\* the turn at the head of the rewrite loop finds no node
Missed ==
    /\ pc = "rewrite"
    /\ pending # <<>>
    /\ findNodeById(Head(pending), simplifiedNodes) = Undefined

(* C15: when a recorded parent ID cannot be located in the output tree at   *)
(* its turn, the grouping pass raises no error, rewrites no node for that   *)
(* ID, goes on to the remaining parent IDs, gives every one of them its     *)
(* turn and returns a result.                                               *)
C15_UnlocatedParentSkipped ==
    /\ [][Missed => /\ simplifiedNodes' = simplifiedNodes
                    /\ pending' = Tail(pending)
                    /\ pc' = "rewrite"]_vars
    /\ [](Returned => /\ pending = <<>>
                      /\ [i \in 1..Len(turns) |-> turns[i].id]
                            = Flatten(childrenToParents))
    /\ (Missed ~> Returned)

\* a returned result where a parent was not located and later ones were
C15_Witness ==
    /\ Returned
    /\ \E i, j \in 1..Len(turns) : i < j /\ ~turns[i].found /\ turns[j].found

\* the parents the grouping pass has grouped, and the walked nodes above an id
Grouped == Range(Flatten(childrenToParents))
WalkedAbove(id) ==
    {a \in OutAll(walked) :
        /\ Has(a, "children")
        /\ \E d \in OutAll(Get(a, "children").e) : Get(d, "id") = Str(id)}
ChildIds(n) ==
    IF Has(n, "children")
    THEN [i \in 1..Len(Get(n, "children").e) |-> Get(Get(n, "children").e[i], "id")]
    ELSE <<>>

\* n has the fields of w with the same values, and the same children in order
SameFields(n, w) ==
    /\ DOMAIN n.f = DOMAIN w.f
    /\ \A k \in DOMAIN w.f \ {"children"} : n.f[k] = w.f[k]
    /\ ChildIds(n) = ChildIds(w)

(* C16: the grouping pass changes only collapsed placeholders: a node of    *)
(* the walked tree that is no recorded vector parent and lies below none    *)
(* is in the output tree with the fields and values the walk gave it, all   *)
(* through the pass, and no node is rewritten twice.                        *)
C16_OnlyPlaceholdersChange ==
    pc \in {"rewrite", "done"} =>
        /\ \A w \in OutAll(walked) :
              (/\ Get(w, "id").s \notin Grouped
               /\ \A a \in WalkedAbove(Get(w, "id").s) : Get(a, "id").s \notin Grouped)
              => /\ OutById(Get(w, "id").s) # {}
                 /\ \A n \in OutById(Get(w, "id").s) : SameFields(n, w)
        /\ \A i, j \in 1..Len(turns) : i # j => turns[i].id # turns[j].id

\* a returned result with an untouched node right above a rewritten one
C16_Witness ==
    /\ Returned
    /\ \E w \in OutAll(walked) :
          /\ Get(w, "id").s \notin Grouped
          /\ \E i \in 1..Len(ChildIds(w)) : ChildIds(w)[i].s \in Located
          /\ \E n \in OutById(Get(w, "id").s) : SameFields(n, w)

\* the raw node of an id, the raw parent of a raw node (Undefined at the top)
RawOf(id) == CHOOSE r \in RawAll(document) : Get(r, "id") = id
RawParent(r) ==
    IF \E p \in RawAll(document) : r \in Range(RawChildren(p))
    THEN CHOOSE p \in RawAll(document) : r \in Range(RawChildren(p))
    ELSE Undefined
ShownChildIds(r) ==
    LET shown == SelectSeq(RawChildren(r), RawShown)
    IN [i \in 1..Len(shown) |-> Get(shown[i], "id")]

(* C17: for every visible node, the children list the walk produces is the  *)
(* sequence of the simplified forms of its visible raw children in their    *)
(* raw order, invisible children skipped, and the children field is absent  *)
(* when no child is visible.                                                *)
C17_ChildrenInRawOrder ==
    Walked =>
        \A r \in RawReached(document) :
            /\ \E w \in OutAll(walked) : Get(w, "id") = Get(r, "id")
            /\ \A w \in OutAll(walked) :
                  Get(w, "id") = Get(r, "id") =>
                      /\ ChildIds(w) = ShownChildIds(r)
                      /\ Has(w, "children") <=> ShownChildIds(r) # <<>>

(* C19: a simplified node has a layout reference exactly when the layout    *)
(* builder's result for it has at least two fields; a result of fewer       *)
(* fields gives the node no layout key and the store no entry.              *)
C19_LayoutNeedsTwoFields ==
    Walked =>
        \A w \in OutAll(walked) :
            LET r == RawOf(Get(w, "id"))
                layout == buildSimplifiedLayout(r, RawParent(r))
            IN /\ Has(w, "layout") <=> Cardinality(DOMAIN layout.f) >= 2
               /\ Cardinality(DOMAIN layout.f) < 2 =>
                     \A i \in 1..Len(calls) : calls[i].value # layout

\* the walked nodes that came from a raw node with a style, and that style
Styled == {w \in OutAll(walked) : Has(RawOf(Get(w, "id")), "style")}
StyleOf(w) == Get(RawOf(Get(w, "id")), "style")

(* C18: text styles are normalized before they are registered: letter       *)
(* spacing 0 gives the same textStyle reference as no letter spacing, no    *)
(* line height gives the same reference as a line height equal to the font  *)
(* size, a non-zero letter spacing gives a different reference, and the     *)
(* node holds the store ID, not the record.                                 *)
C18_TextStyleNormalized ==
    Walked =>
        /\ \A w \in Styled : Get(w, "textStyle").t = "string"
        /\ \A w1, w2 \in Styled :
              LET s1 == StyleOf(w1)
                  s2 == StyleOf(w2)
              IN /\ (Get(s1, "letterSpacing") = Num(0) /\ s2 = DelKey(s1, "letterSpacing"))
                        => Get(w1, "textStyle") = Get(w2, "textStyle")
                 /\ (~Has(s1, "lineHeightPx")
                        /\ s2 = SetKey(s1, "lineHeightPx", Get(s1, "fontSize")))
                        => Get(w1, "textStyle") = Get(w2, "textStyle")
                 /\ (Has(s1, "letterSpacing") /\ Get(s1, "letterSpacing") # Num(0)
                        /\ s2 = DelKey(s1, "letterSpacing"))
                        => Get(w1, "textStyle") # Get(w2, "textStyle")

\* the returned childrenToParents, each group the sequence of its parent ids
ReturnedLists ==
    LET groups == OGet(globalVars, "childrenToParents").e
    IN [i \in 1..Len(groups) |-> [j \in 1..Len(groups[i].v.e) |-> groups[i].v.e[j].s]]

(* C20: the returned childrenToParents partitions the recorded parents: no  *)
(* group is empty, every parent ID is in one group only and once in it, and *)
(* the groups together hold exactly the IDs of the raw nodes the walk       *)
(* reached that have a visible direct VECTOR child.                         *)
C20_GroupsPartitionParents ==
    Returned =>
        /\ \A i \in 1..Len(ReturnedLists) : ReturnedLists[i] # <<>>
        /\ \A i, j \in 1..Len(ReturnedLists) :
              \A a \in 1..Len(ReturnedLists[i]), b \in 1..Len(ReturnedLists[j]) :
                  ReturnedLists[i][a] = ReturnedLists[j][b] => (i = j /\ a = b)
        /\ UNION {Range(ReturnedLists[i]) : i \in 1..Len(ReturnedLists)}
              = IdsOf({r \in RawReached(document) : HoldsVector(r)})

\* a returned result with a group of two parents
C20_Witness ==
    /\ Returned
    /\ \E i \in 1..Len(ReturnedLists) : Len(ReturnedLists[i]) = 2

\* the fields of an output node that hold a reference into globalVars
ReferenceKeys == {"textStyle", "fills", "strokes", "styles", "layout",
                  "individualStrokeWeights"}

(* C21: in every returned result each reference held by a node of the       *)
(* output tree is a key of the returned globalVars, is neither              *)
(* vectorParents nor childrenToParents, and its value is the payload that   *)
(* was registered for that field of that node.                              *)
C21_NoDanglingReference ==
    Returned =>
        \A n \in OutAll(simplifiedNodes) : \A key \in ReferenceKeys :
            Has(n, key) =>
                /\ "s" \in DOMAIN Get(n, key)
                /\ Get(n, key).s \notin {"vectorParents", "childrenToParents"}
                /\ Get(n, key).s \in OKeys(globalVars)
                /\ \E i \in 1..Len(calls) :
                      /\ calls[i].node = Get(n, "id")
                      /\ calls[i].key = key
                      /\ calls[i].id = Get(n, key).s
                      /\ OGet(globalVars, Get(n, key).s) = calls[i].value

\* the nodes of the returned tree that are the child of another node
OutNested ==
    UNION {OutAll(Get(n, "children").e) :
             n \in {p \in OutAll(simplifiedNodes) : Has(p, "children")}}

(* C22: in every returned result no VECTOR node that had a parent remains:  *)
(* every node of type VECTOR in the returned tree is a top-level element of *)
(* nodes and the child of no node, and no IMAGE stub has children.          *)
C22_NoNestedVectorRemains ==
    Returned =>
        /\ \A n \in OutAll(simplifiedNodes) :
              Get(n, "type") = Str("VECTOR") =>
                  /\ n \in Range(simplifiedNodes)
                  /\ n \notin OutNested
        /\ \A n \in OutAll(simplifiedNodes) :
              Get(n, "type") = Str("IMAGE") => ~Has(n, "children")

\* a returned result that keeps a top-level VECTOR and holds, below another
\* node, the placeholder of a parent whose raw node had a VECTOR child
C22_Witness ==
    /\ Returned
    /\ \E n \in Range(simplifiedNodes) : n # Null /\ Get(n, "type") = Str("VECTOR")
    /\ \E n \in OutNested :
          /\ Get(n, "type") = Str("IMAGE")
          /\ HoldsVector(RawOf(Get(n, "id")))

\* the GET /sse requests handled before request i
SseBefore(i) == {j \in 1..(i - 1) : requests[j].method = "GET /sse"}
\* the transports that were given request i
GivenTo(i) == {t \in 1..MaxRequests : \E k \in 1..Len(inbox[t]) : inbox[t][k] = i}

(* C23: a POST /messages handled before any GET /sse is answered with       *)
(* status 400 and is given to no transport; a POST /messages handled after  *)
(* a GET /sse is given to the transport of the latest GET /sse before it,   *)
(* and to that transport only.                                              *)
C23_PostsReachLatestTransport ==
    \A i \in 1..Len(requests) :
        requests[i].method = "POST /messages" =>
            IF SseBefore(i) = {}
            THEN requests[i].status = 400 /\ GivenTo(i) = {}
            ELSE LET last == CHOOSE j \in SseBefore(i) : \A k \in SseBefore(i) : k <= j
                 IN /\ requests[i].status # 400
                    /\ GivenTo(i) = {requests[last].transport}

\* a POST answered with 400, then two SSE connections, then a POST given to
\* the second transport
C23_Witness ==
    \E i, j, k, l \in 1..Len(requests) :
        /\ i < j /\ j < k /\ k < l
        /\ requests[i].method = "POST /messages" /\ requests[i].status = 400
        /\ requests[j].method = "GET /sse"
        /\ requests[k].method = "GET /sse"
        /\ requests[l].method = "POST /messages"
        /\ GivenTo(l) = {requests[k].transport}

====
